---- MODULE Spec2Model ----
(***************************************************************************)
(* Model of src/App.tsx: the manager screen (App) that starts a playback   *)
(* session, and the double-buffered player (SeamlessPlayer) with its two   *)
(* Video surfaces, its mount effect loadInitialVideos and its tap handler  *)
(* handleTap.                                                              *)
(*                                                                         *)
(* JavaScript runs one callback at a time, so every action below is one    *)
(* run-to-suspension segment of a handler: from its start (or from the     *)
(* resolution of the promise it awaits) to its next await or its return.   *)
(* React state setters called in a segment are committed, and the          *)
(* component re-rendered, before the next callback runs, so a segment and  *)
(* the re-render it causes are one step.                                   *)
(***************************************************************************)
EXTENDS Integers, Sequences, FiniteSets

VARIABLES
    storage,         \* AsyncStorage item STEPS_STORAGE_KEY (<<>> when absent)
    steps,           \* App: useState<VideoStep[]>([]), as the sequence of clip ids
    stepsLoaded,     \* App: the mount effect's loadSteps() has resolved
    isPlaying,       \* App: useState(false); SeamlessPlayer is mounted iff TRUE
    gen,             \* which SeamlessPlayer instance is (or was last) mounted
    currentIndex,    \* SeamlessPlayer: useState(0)
    activePlayerId,  \* SeamlessPlayer: useState<0|1>(0)
    isReady,         \* SeamlessPlayer: useState(false)
    timerPending,    \* the setTimeout of loadInitialVideos has not fired yet
    surf,            \* the two Video surfaces of the mounted player: 0 = A, 1 = B
    tasks,           \* the handleTap invocations suspended at an await
    taps,            \* handleTap invocations of this session so far
    overlapped,      \* some handleTap of this session began while another was in flight
    playFails,       \* playAsync rejections seen by this session's handleTaps
    exitCount,       \* onExit() calls of this session
    issued,          \* the surface commands issued by the last step
    lastStep,        \* which segment the last step was
    lastStale,       \* the last step was a continuation of a torn-down player
    preloadFailed,   \* clips whose preload (handleTap line 119) rejected in this session
    picks            \* App: the pickVideo invocations, by order of the button press

vars == <<storage, steps, stepsLoaded, isPlaying, gen, currentIndex,
          activePlayerId, isReady, timerPending, surf, tasks, taps,
          overlapped, playFails, exitCount, issued, lastStep, lastStale,
          preloadFailed, picks>>

(***************************************************************************)
(* Bounds.                                                                 *)
(***************************************************************************)
MaxN == 3          \* longest stored step list
MaxTasks == 3      \* handleTap invocations in flight at once
MaxTaps == 3       \* taps per session
MaxSessions == 1   \* times "Start Experience" is pressed
MaxPicks == 2      \* times "Upload Step" is pressed

\* useRef<Video>(null): a ref with no element attached
NULL == -1

SurfaceIds == {0, 1}

\* A VideoStep, as one number: the stepNumber it was given and the pickVideo
\* invocation that made it (0 for the steps found in storage); its uri,
\* `video_step_${newStepNum}_${Date.now()}.mov`, holds the same two.
StepBase == 10
VideoStep(k, num) == StepBase * k + num
stepNumber(v) == v % StepBase

\* A stored step list: stepNumber i at position i.
StoredList(n) == [i \in 1..n |-> i]

\* const [steps, setSteps] = useState<VideoStep[]>([])
InitialSteps == <<>>

(***************************************************************************)
(* The Video surfaces.  expo-av is outside the repository; the surface is  *)
(* modelled by the ClipSurface contract: phases Empty, Loading, Ready,     *)
(* Playing, Stopping and the clip it holds (0 = none).                     *)
(***************************************************************************)
EmptySurface == [phase |-> "Empty", clip |-> 0]

Loaded(s) == s.phase \in {"Ready", "Playing", "Stopping"}

\* play(): a loaded surface starts playing; on a surface with nothing loaded
\* a resolved play() changes nothing.
PlayEffect(s) == IF Loaded(s) THEN [s EXCEPT !.phase = "Playing"] ELSE s

\* stop(): Playing -> Stopping when issued, -> Ready (clip kept) when resolved.
StopIssue(s) == IF s.phase = "Playing" THEN [s EXCEPT !.phase = "Stopping"] ELSE s
StopEffect(s) == IF s.phase \in {"Playing", "Stopping"}
                 THEN [s EXCEPT !.phase = "Ready"] ELSE s

\* load(clip): -> Loading when issued, -> Ready when resolved, Empty on LoadError.
LoadIssue(s, c) == [phase |-> "Loading", clip |-> c]
LoadEffect(s, c) == [phase |-> "Ready", clip |-> c]
LoadFailEffect(s) == EmptySurface

\* unload(): -> Empty.
UnloadEffect(s) == EmptySurface

Cmd(op, id, c) == [op |-> op, surface |-> id, clip |-> c]

(***************************************************************************)
(* SeamlessPlayer.                                                         *)
(***************************************************************************)
\* The playlist prop: <SeamlessPlayer playlist={steps} .../>
playlist == steps

\* playerARef / playerBRef .current as seen by code of player instance g: the
\* <Video ref=...> elements are rendered only when isReady, and React clears a
\* ref when its element unmounts.
refCurrentNotCleared(g, id, playing, ready) ==
    IF ready THEN id ELSE NULL

refCurrent(g, id, playing, ready) ==
    IF playing /\ ready /\ g = gen THEN id ELSE NULL

\* A component's state setters do nothing once it is unmounted.
Mounted(g) == isPlaying /\ g = gen

IdleTask == [pc |-> "idle", gen |-> 0, nextIndex |-> 0, nextActiveId |-> 0,
             playlist |-> <<>>]

InFlight == {t \in 1..MaxTasks : tasks[t].pc # "idle"}
LiveInFlight == {t \in InFlight : Mounted(tasks[t].gen)}
FreeSlots == (1..MaxTasks) \ InFlight

\* const nextActiveId = activePlayerId === 0 ? 1 : 0
nextActiveIdOf(a) == IF a = 0 THEN 1 ELSE 0

\* if (nextIndex >= playlist.length)
AtEndOneEarly(nextIndex) == nextIndex + 1 >= Len(playlist)

AtEnd(nextIndex) == nextIndex >= Len(playlist)

\* The surfaces loadInitialVideos loads: `if (playerXRef.current && playlist[i])`,
\* evaluated in the mount effect, i.e. after the first render, where isReady is
\* still false.
initLoads ==
    {id \in SurfaceIds : refCurrent(gen + 1, id, TRUE, FALSE) # NULL /\ id < Len(steps)}

\* A pickVideo invocation: where it is suspended and the `steps` of the render
\* whose handler was pressed.
IdlePick == [pc |-> "idle", steps |-> <<>>]

Init ==
    /\ storage \in {StoredList(n) : n \in 0..MaxN}
    /\ steps = InitialSteps
    /\ stepsLoaded = FALSE
    /\ isPlaying = FALSE
    /\ gen = 0
    /\ currentIndex = 0
    /\ activePlayerId = 0
    /\ isReady = FALSE
    /\ timerPending = FALSE
    /\ surf = [id \in SurfaceIds |-> EmptySurface]
    /\ tasks = [t \in 1..MaxTasks |-> IdleTask]
    /\ taps = 0
    /\ overlapped = FALSE
    /\ playFails = 0
    /\ exitCount = 0
    /\ issued = {}
    /\ lastStep = "init"
    /\ lastStale = FALSE
    /\ preloadFailed = {}
    /\ picks = [k \in 1..MaxPicks |-> IdlePick]

(***************************************************************************)
(* App.                                                                    *)
(***************************************************************************)
\* loadSteps (lines 183-190): `if (saved) setSteps(JSON.parse(saved))`.
loadSteps ==
    /\ ~stepsLoaded
    /\ stepsLoaded' = TRUE
    /\ steps' = IF storage # <<>> THEN storage ELSE steps
    /\ issued' = {}
    /\ lastStep' = "loadSteps"
    /\ picks' = picks
    /\ preloadFailed' = preloadFailed
    /\ lastStale' = FALSE
    /\ UNCHANGED <<storage, isPlaying, gen, currentIndex, activePlayerId, isReady,
                   timerPending, surf, tasks, taps, overlapped, playFails, exitCount>>

\* launchImageLibraryAsync shows the system picker, a modal: no button of the
\* manager screen can be pressed while it is open.
PickerOpen == \E k \in 1..MaxPicks : picks[k].pc = "picker"

\* The "Start Experience" button (rendered when steps.length > 0) sets
\* isPlaying; SeamlessPlayer mounts with fresh state and its mount effect runs
\* loadInitialVideos.  Both of its guarded loadAsync calls are skipped when the
\* refs are null, so it reaches setTimeout(() => setIsReady(true), 500) without
\* suspending.
StartExperience ==
    /\ ~isPlaying
    /\ ~PickerOpen
    /\ Len(steps) > 0
    /\ gen < MaxSessions
    /\ isPlaying' = TRUE
    /\ gen' = gen + 1
    /\ currentIndex' = 0
    /\ activePlayerId' = 0
    /\ isReady' = FALSE
    /\ issued' = {Cmd("load", id, playlist[id + 1]) : id \in initLoads}
    /\ surf' = [id \in SurfaceIds |->
                  IF id \in initLoads THEN LoadIssue(EmptySurface, playlist[id + 1])
                  ELSE EmptySurface]
    /\ timerPending' = TRUE
    /\ taps' = 0
    /\ overlapped' = FALSE
    /\ playFails' = 0
    /\ exitCount' = 0
    /\ lastStep' = "start"
    /\ picks' = picks
    /\ preloadFailed' = {}
    /\ lastStale' = FALSE
    /\ UNCHANGED <<storage, steps, stepsLoaded, tasks>>

\* onExit={() => setIsPlaying(false)}
onExitKeepsPlaying == isPlaying' = isPlaying

onExit == isPlaying' = FALSE

(***************************************************************************)
(* SeamlessPlayer: loadInitialVideos' timer and handleTap.                 *)
(***************************************************************************)
\* setTimeout(() => setIsReady(true), 500): the player re-renders with its two
\* <Video> elements, which mount with nothing loaded.
TimerFires ==
    /\ timerPending
    /\ timerPending' = FALSE
    /\ isReady' = IF Mounted(gen) THEN TRUE ELSE isReady
    /\ surf' = [id \in SurfaceIds |-> EmptySurface]
    /\ issued' = {}
    /\ lastStep' = "ready"
    /\ picks' = picks
    /\ preloadFailed' = preloadFailed
    /\ lastStale' = ~Mounted(gen)
    /\ UNCHANGED <<storage, steps, stepsLoaded, isPlaying, gen, currentIndex,
                   activePlayerId, tasks, taps, overlapped, playFails, exitCount>>

\* The touch layer is rendered only by a mounted player with isReady.
TapEnabled == isPlaying /\ isReady /\ taps < MaxTaps

\* handleTap, lines 93-99: at the end of the playlist call onExit() and return.
\* App unmounts the player, which destroys its Video elements.
handleTapExitFallsThrough ==
    /\ TapEnabled
    /\ AtEnd(currentIndex + 1)
    /\ FreeSlots # {}
    /\ onExit
    /\ exitCount' = exitCount + 1
    /\ taps' = taps + 1
    /\ overlapped' = (overlapped \/ LiveInFlight # {})
    /\ LET nextActiveId == nextActiveIdOf(activePlayerId)
           t == CHOOSE x \in FreeSlots : \A y \in FreeSlots : x <= y
       IN  /\ issued' = {Cmd("play", nextActiveId, 0)}
           /\ tasks' = [tasks EXCEPT ![t] = [pc |-> "play", gen |-> gen,
                                            nextIndex |-> currentIndex + 1,
                                            nextActiveId |-> nextActiveId,
                                            playlist |-> playlist]]
    /\ surf' = IF isPlaying' THEN surf ELSE [id \in SurfaceIds |-> EmptySurface]
    /\ lastStep' = "tapExit"
    /\ picks' = picks
    /\ preloadFailed' = preloadFailed
    /\ lastStale' = FALSE
    /\ UNCHANGED <<storage, steps, stepsLoaded, gen, currentIndex, activePlayerId,
                   isReady, timerPending, playFails>>

handleTapExit ==
    /\ TapEnabled
    /\ AtEnd(currentIndex + 1)
    /\ onExit
    /\ exitCount' = exitCount + 1
    /\ taps' = taps + 1
    /\ overlapped' = (overlapped \/ LiveInFlight # {})
    /\ surf' = IF isPlaying' THEN surf ELSE [id \in SurfaceIds |-> EmptySurface]
    /\ issued' = {}
    /\ lastStep' = "tapExit"
    /\ picks' = picks
    /\ preloadFailed' = preloadFailed
    /\ lastStale' = FALSE
    /\ UNCHANGED <<storage, steps, stepsLoaded, gen, currentIndex, activePlayerId,
                   isReady, timerPending, tasks, playFails>>

\* handleTap, lines 93-107: otherwise pick the other player and await its
\* playAsync().  nextIndex and nextActiveId are the values of the render whose
\* handler the tap runs, i.e. of the committed state at the time of the tap.
handleTapAdvanceFlipsFirst ==
    /\ TapEnabled
    /\ ~AtEnd(currentIndex + 1)
    /\ FreeSlots # {}
    /\ LET nextIndex == currentIndex + 1
           nextActiveId == nextActiveIdOf(activePlayerId)
           nextPlayerRef == refCurrent(gen, nextActiveId, isPlaying, isReady)
           t == CHOOSE x \in FreeSlots : \A y \in FreeSlots : x <= y
       IN  /\ issued' = IF nextPlayerRef # NULL
                        THEN {Cmd("play", nextPlayerRef, 0)} ELSE {}
           /\ tasks' = [tasks EXCEPT ![t] = [pc |-> "play", gen |-> gen,
                                            nextIndex |-> nextIndex,
                                            nextActiveId |-> nextActiveId,
                                            playlist |-> playlist]]
    /\ activePlayerId' = nextActiveIdOf(activePlayerId)
    /\ currentIndex' = currentIndex + 1
    /\ taps' = taps + 1
    /\ overlapped' = (overlapped \/ LiveInFlight # {})
    /\ lastStep' = "tapAdvance"
    /\ picks' = picks
    /\ preloadFailed' = preloadFailed
    /\ lastStale' = FALSE
    /\ UNCHANGED <<storage, steps, stepsLoaded, isPlaying, gen, isReady, timerPending, surf, playFails, exitCount>>

handleTapAdvance ==
    /\ TapEnabled
    /\ ~AtEnd(currentIndex + 1)
    /\ FreeSlots # {}
    /\ LET nextIndex == currentIndex + 1
           nextActiveId == nextActiveIdOf(activePlayerId)
           nextPlayerRef == refCurrent(gen, nextActiveId, isPlaying, isReady)
           t == CHOOSE x \in FreeSlots : \A y \in FreeSlots : x <= y
       IN  /\ issued' = IF nextPlayerRef # NULL
                        THEN {Cmd("play", nextPlayerRef, 0)} ELSE {}
           /\ tasks' = [tasks EXCEPT ![t] = [pc |-> "play", gen |-> gen,
                                            nextIndex |-> nextIndex,
                                            nextActiveId |-> nextActiveId,
                                            playlist |-> playlist]]
    /\ taps' = taps + 1
    /\ overlapped' = (overlapped \/ LiveInFlight # {})
    /\ lastStep' = "tapAdvance"
    /\ picks' = picks
    /\ preloadFailed' = preloadFailed
    /\ lastStale' = FALSE
    /\ UNCHANGED <<storage, steps, stepsLoaded, isPlaying, gen, currentIndex,
                   activePlayerId, isReady, timerPending, surf, playFails, exitCount>>

\* const futureIndex = nextIndex + 1
futureIndexSkipsOne(nextIndex) == nextIndex + 2

futureIndexOf(nextIndex) == nextIndex + 1

\* A finished handleTap invocation frees its slot.
Finish(t) == [tasks EXCEPT ![t] = IdleTask]

\* handleTap, lines 107-114: playAsync() resolved.  setActivePlayerId and
\* setCurrentIndex take the values computed when the tap began; then
\* stopAsync() is awaited on the previous player.  With a null ref every
\* `?.` call is skipped and the handler runs to its end.
PlayResolved(t) ==
    /\ tasks[t].pc = "play"
    /\ LET g == tasks[t].gen
           next == tasks[t].nextActiveId
           prev == 1 - next
           live == Mounted(g)
           played == IF live THEN [surf EXCEPT ![next] = PlayEffect(@)] ELSE surf
           prevPlayerRef == refCurrent(g, prev, isPlaying, isReady)
       IN  /\ activePlayerId' = IF live THEN next ELSE activePlayerId
           /\ currentIndex' = IF live THEN tasks[t].nextIndex ELSE currentIndex
           /\ IF prevPlayerRef # NULL
              THEN /\ issued' = {Cmd("stop", prevPlayerRef, 0)}
                   /\ surf' = IF live THEN [played EXCEPT ![prev] = StopIssue(@)]
                              ELSE played
                   /\ tasks' = [tasks EXCEPT ![t].pc = "stop"]
              ELSE /\ issued' = {}
                   /\ surf' = played
                   /\ tasks' = Finish(t)
           /\ lastStale' = ~live
    /\ lastStep' = "playOk"
    /\ picks' = picks
    /\ preloadFailed' = preloadFailed
    /\ UNCHANGED <<storage, steps, stepsLoaded, isPlaying, gen, isReady, timerPending,
                   taps, overlapped, playFails, exitCount>>

\* handleTap, line 107: playAsync() rejected.  There is no try/catch: the
\* handler ends there and its promise, which onPress drops, is rejected.
PlayRejected(t) ==
    /\ tasks[t].pc = "play"
    /\ tasks' = Finish(t)
    /\ playFails' = IF Mounted(tasks[t].gen) THEN playFails + 1 ELSE playFails
    /\ issued' = {}
    /\ lastStep' = "playFail"
    /\ picks' = picks
    /\ preloadFailed' = preloadFailed
    /\ lastStale' = ~Mounted(tasks[t].gen)
    /\ UNCHANGED <<storage, steps, stepsLoaded, isPlaying, gen, currentIndex,
                   activePlayerId, isReady, timerPending, surf, taps, overlapped,
                   exitCount>>

\* handleTap, lines 114-125: stopAsync() resolved; preload playlist[futureIndex]
\* into the previous player, or unload it when there is no such clip.
StopResolved(t) ==
    /\ tasks[t].pc = "stop"
    /\ LET g == tasks[t].gen
           prev == 1 - tasks[t].nextActiveId
           live == Mounted(g)
           stopped == IF live THEN [surf EXCEPT ![prev] = StopEffect(@)] ELSE surf
           futureIndex == futureIndexOf(tasks[t].nextIndex)
           list == tasks[t].playlist
           prevPlayerRef == refCurrent(g, prev, isPlaying, isReady)
       IN  /\ IF prevPlayerRef = NULL
              THEN /\ issued' = {}
                   /\ surf' = stopped
                   /\ tasks' = Finish(t)
              ELSE IF futureIndex < Len(list)
              THEN /\ issued' = {Cmd("load", prevPlayerRef, list[futureIndex + 1])}
                   /\ surf' = IF live
                              THEN [stopped EXCEPT ![prev] =
                                        LoadIssue(@, list[futureIndex + 1])]
                              ELSE stopped
                   /\ tasks' = [tasks EXCEPT ![t].pc = "load"]
              ELSE /\ issued' = {Cmd("unload", prevPlayerRef, 0)}
                   /\ surf' = stopped
                   /\ tasks' = [tasks EXCEPT ![t].pc = "unload"]
           /\ lastStale' = ~live
    /\ lastStep' = "stopOk"
    /\ picks' = picks
    /\ preloadFailed' = preloadFailed
    /\ UNCHANGED <<storage, steps, stepsLoaded, isPlaying, gen, currentIndex,
                   activePlayerId, isReady, timerPending, taps, overlapped, playFails,
                   exitCount>>

\* handleTap, lines 119-122: the preload resolved; the handler returns.
LoadResolved(t) ==
    /\ tasks[t].pc = "load"
    /\ LET prev == 1 - tasks[t].nextActiveId
           live == Mounted(tasks[t].gen)
       IN  /\ surf' = IF live
                      THEN [surf EXCEPT ![prev] =
                               LoadEffect(@, tasks[t].playlist[tasks[t].nextIndex + 2])]
                      ELSE surf
           /\ lastStale' = ~live
    /\ tasks' = Finish(t)
    /\ issued' = {}
    /\ lastStep' = "loadOk"
    /\ picks' = picks
    /\ preloadFailed' = preloadFailed
    /\ UNCHANGED <<storage, steps, stepsLoaded, isPlaying, gen, currentIndex,
                   activePlayerId, isReady, timerPending, taps, overlapped, playFails,
                   exitCount>>

\* handleTap, lines 119-122: the preload rejected; the handler's promise is
\* rejected and dropped.
LoadRejected(t) ==
    /\ tasks[t].pc = "load"
    /\ LET prev == 1 - tasks[t].nextActiveId
           live == Mounted(tasks[t].gen)
       IN  /\ surf' = IF live THEN [surf EXCEPT ![prev] = LoadFailEffect(@)] ELSE surf
           /\ lastStale' = ~live
    /\ tasks' = Finish(t)
    /\ issued' = {}
    /\ lastStep' = "loadFail"
    /\ picks' = picks
    /\ preloadFailed' = IF Mounted(tasks[t].gen)
                        THEN preloadFailed \cup {tasks[t].playlist[tasks[t].nextIndex + 2]}
                        ELSE preloadFailed
    /\ UNCHANGED <<storage, steps, stepsLoaded, isPlaying, gen, currentIndex,
                   activePlayerId, isReady, timerPending, taps, overlapped, playFails,
                   exitCount>>

\* handleTap, line 124: unloadAsync() resolved; the handler returns.
UnloadResolved(t) ==
    /\ tasks[t].pc = "unload"
    /\ LET prev == 1 - tasks[t].nextActiveId
           live == Mounted(tasks[t].gen)
       IN  /\ surf' = IF live THEN [surf EXCEPT ![prev] = UnloadEffect(@)] ELSE surf
           /\ lastStale' = ~live
    /\ tasks' = Finish(t)
    /\ issued' = {}
    /\ lastStep' = "unloadOk"
    /\ picks' = picks
    /\ preloadFailed' = preloadFailed
    /\ UNCHANGED <<storage, steps, stepsLoaded, isPlaying, gen, currentIndex,
                   activePlayerId, isReady, timerPending, taps, overlapped, playFails,
                   exitCount>>

(***************************************************************************)
(* App: pickVideo, saveSteps and clearAll.                                 *)
(***************************************************************************)
PlayerUnchanged ==
    UNCHANGED <<isPlaying, gen, currentIndex, activePlayerId, isReady, timerPending,
                surf, tasks, taps, overlapped, playFails, exitCount, preloadFailed>>

\* saveSteps (lines 192-195): setSteps(newSteps), then the item is written.
saveSteps(newSteps) ==
    /\ steps' = newSteps
    /\ storage' = newSteps

\* pickVideo, line 198: the "Upload Step" button of the manager screen; the
\* handler awaits the picker.  `steps` is the one of the render it belongs to.
pickVideoStart ==
    /\ ~isPlaying
    /\ ~PickerOpen
    /\ \E k \in 1..MaxPicks :
         /\ picks[k].pc = "idle"
         /\ \A j \in 1..(k - 1) : picks[j].pc # "idle"
         /\ picks' = [picks EXCEPT ![k] = [pc |-> "picker", steps |-> steps]]
    /\ issued' = {}
    /\ lastStep' = "pickStart"
    /\ lastStale' = FALSE
    /\ UNCHANGED <<storage, steps, stepsLoaded>>
    /\ PlayerUnchanged

\* pickVideo, line 204: the picker was canceled.
pickerCanceled(k) ==
    /\ picks[k].pc = "picker"
    /\ picks' = [picks EXCEPT ![k].pc = "done"]
    /\ issued' = {}
    /\ lastStep' = "pickCanceled"
    /\ lastStale' = FALSE
    /\ UNCHANGED <<storage, steps, stepsLoaded>>
    /\ PlayerUnchanged

\* pickVideo, lines 205-216: an asset was picked; copyAsync is awaited.
pickerPicked(k) ==
    /\ picks[k].pc = "picker"
    /\ picks' = [picks EXCEPT ![k].pc = "copy"]
    /\ issued' = {}
    /\ lastStep' = "picked"
    /\ lastStale' = FALSE
    /\ UNCHANGED <<storage, steps, stepsLoaded>>
    /\ PlayerUnchanged

\* pickVideo, lines 218-225: the copy resolved; saveSteps([...steps, newStep])
\* with newStepNum = steps.length + 1.
copyResolved(k) ==
    /\ picks[k].pc = "copy"
    /\ LET newStepNum == Len(picks[k].steps) + 1
       IN  saveSteps(Append(picks[k].steps, VideoStep(k, newStepNum)))
    /\ picks' = [picks EXCEPT ![k].pc = "done"]
    /\ issued' = {}
    /\ lastStep' = "saved"
    /\ lastStale' = FALSE
    /\ UNCHANGED stepsLoaded
    /\ PlayerUnchanged

\* pickVideo, lines 226-228: the copy rejected; an alert is shown.
copyRejected(k) ==
    /\ picks[k].pc = "copy"
    /\ picks' = [picks EXCEPT ![k].pc = "done"]
    /\ issued' = {}
    /\ lastStep' = "copyFail"
    /\ lastStale' = FALSE
    /\ UNCHANGED <<storage, steps, stepsLoaded>>
    /\ PlayerUnchanged

\* clearAll, lines 232-244: "Reset", confirmed with "Delete": saveSteps([]).
clearAll ==
    /\ ~isPlaying
    /\ ~PickerOpen
    /\ saveSteps(<<>>)
    /\ issued' = {}
    /\ lastStep' = "clearAll"
    /\ lastStale' = FALSE
    /\ UNCHANGED <<stepsLoaded, picks>>
    /\ PlayerUnchanged

Next ==
    \/ loadSteps
    \/ StartExperience
    \/ TimerFires
    \/ handleTapExit
    \/ handleTapAdvance
    \/ \E t \in 1..MaxTasks : PlayResolved(t)
    \/ \E t \in 1..MaxTasks : PlayRejected(t)
    \/ \E t \in 1..MaxTasks : StopResolved(t)
    \/ \E t \in 1..MaxTasks : LoadResolved(t)
    \/ \E t \in 1..MaxTasks : LoadRejected(t)
    \/ \E t \in 1..MaxTasks : UnloadResolved(t)

Spec == Init /\ [][Next]_vars

\* The manager screen with its uploads and resets, and the player.
NextManager ==
    \/ Next
    \/ pickVideoStart
    \/ \E k \in 1..MaxPicks : pickerCanceled(k)
    \/ \E k \in 1..MaxPicks : pickerPicked(k)
    \/ \E k \in 1..MaxPicks : copyResolved(k)
    \/ \E k \in 1..MaxPicks : copyRejected(k)
    \/ clearAll

SpecManager == Init /\ [][NextManager]_vars

(***************************************************************************)
(* Properties.                                                             *)
(***************************************************************************)
N == Len(playlist)

Standby == 1 - activePlayerId

\* The step is a handleTap invocation.
TapStep == taps' = taps + 1

\* C1 as stated: with one tap at a time and no rejected playAsync, the session
\* that has called onExit has seen exactly N-1 taps.
C1_ExitAfterNMinus1Taps ==
    (exitCount >= 1 /\ ~overlapped /\ playFails = 0) => taps = N - 1

\* C1 amended: with one tap at a time, every tap whose playAsync is not
\* rejected moves the cursor by one while the cursor is below N-1, and onExit
\* is called by the tap made at cursor N-1: the session that has called onExit
\* has seen exactly N taps plus one for every rejected playAsync.
C1_ExitAfterNTaps ==
    ~overlapped =>
        /\ exitCount >= 1 => taps = N + playFails
        /\ (isPlaying /\ isReady /\ LiveInFlight = {}) =>
               (currentIndex = taps - playFails /\ currentIndex < N)

C1_Witness ==
    exitCount = 1 /\ ~overlapped /\ N = 3 /\ taps = 3

\* C2: onExit is called at most once in a session, whatever the taps.
C2_ExitAtMostOnce == exitCount <= 1

C2_Witness ==
    exitCount = 1 /\ overlapped /\ InFlight # {} /\ lastStep = "tapExit"

\* C3 as stated: once the session is ready, the surface selected by
\* activePlayerId is Playing and the other one is Ready, Loading or Empty.
C3_ExactlyOnePlaying ==
    (isPlaying /\ isReady) =>
        /\ surf[activePlayerId].phase = "Playing"
        /\ surf[Standby].phase \in {"Ready", "Loading", "Empty"}

\* C4 as stated: ready, no handleTap in flight and a next clip exists: the
\* standby surface holds playlist[currentIndex+1], Ready.
C4_StandbyPreloaded ==
    (isPlaying /\ isReady /\ LiveInFlight = {} /\ currentIndex + 1 < N) =>
        surf[Standby] = [phase |-> "Ready", clip |-> playlist[currentIndex + 2]]

\* C5 as stated: a tap made while a handleTap is in flight issues no surface
\* command and changes neither currentIndex nor activePlayerId.
C5_TapInFlightIgnored ==
    [][(TapStep /\ LiveInFlight # {}) =>
          (issued' = {} /\ currentIndex' = currentIndex
                        /\ activePlayerId' = activePlayerId)]_vars

\* C6: the handleTap that calls onExit changes neither currentIndex nor
\* activePlayerId, issues no surface command and awaits nothing.
C6_ExitTouchesNothing ==
    [][(exitCount' = exitCount + 1) =>
          (currentIndex' = currentIndex /\ activePlayerId' = activePlayerId
             /\ issued' = {} /\ tasks' = tasks)]_vars

C6_Witness ==
    lastStep = "tapExit" /\ N = 1 /\ taps = 1 /\ exitCount = 1

\* C7 as stated: when playAsync on the standby surface is rejected, the handler
\* issues playAsync on it again.
C7_PlayRetried ==
    [][(lastStep' = "playFail" /\ ~lastStale') =>
          (\E id \in SurfaceIds : issued' = {Cmd("play", id, 0)})]_vars

\* C8 as stated: when playAsync is rejected for good, currentIndex and
\* activePlayerId are unchanged, nothing is issued to the active surface and
\* it is still Playing.
C8_FailedPlayKeepsOldClip ==
    [][(lastStep' = "playFail" /\ ~lastStale') =>
          (currentIndex' = currentIndex /\ activePlayerId' = activePlayerId
             /\ issued' = {} /\ surf'[activePlayerId'].phase = "Playing")]_vars

\* C9: a continuation that runs after its player was torn down issues no
\* surface command and writes no session state.
C9_StaleContinuationDiscarded ==
    [][lastStale' =>
          (issued' = {} /\ UNCHANGED <<currentIndex, activePlayerId, isReady, surf>>)]_vars

C9_Witness ==
    lastStale /\ lastStep \in {"playOk", "stopOk", "loadOk", "unloadOk"}

\* The surface a suspended handleTap has its pending command on.
Target(t) == IF tasks[t].pc = "play" THEN tasks[t].nextActiveId
             ELSE 1 - tasks[t].nextActiveId

\* C11 as stated: when the session becomes ready, surface A holds playlist[0]
\* and plays it, surface B holds playlist[1] (when N >= 2), loaded, and
\* activePlayerId = 0.
C11_ReadyAfterInitialLoads ==
    (isPlaying /\ isReady /\ lastStep = "ready") =>
        /\ activePlayerId = 0
        /\ surf[0] = [phase |-> "Playing", clip |-> playlist[1]]
        /\ N >= 2 => surf[1] = [phase |-> "Ready", clip |-> playlist[2]]

\* C12: within one handleTap the steps keep their order: playAsync is issued
\* by the tap, activePlayerId/currentIndex change only when a playAsync
\* resolves, stopAsync is issued in that same segment, after the flip, to the
\* surface that is no longer active, and loadAsync/unloadAsync are issued only
\* when a stopAsync resolves.
C12_AdvanceOrder ==
    [][/\ ((currentIndex' # currentIndex \/ activePlayerId' # activePlayerId)
             /\ lastStep' # "start") => lastStep' = "playOk"
       /\ \A c \in issued' :
            /\ c.op = "play" => lastStep' = "tapAdvance"
            /\ c.op = "stop" =>
                  (lastStep' = "playOk" /\ c.surface = 1 - activePlayerId')
            /\ c.op \in {"load", "unload"} => lastStep' \in {"stopOk", "start"}
       /\ \A t \in 1..MaxTasks :
            /\ (tasks'[t].pc = "stop" /\ tasks[t].pc # "stop") =>
                  (tasks[t].pc = "play" /\ activePlayerId' = tasks[t].nextActiveId
                                         /\ currentIndex' = tasks[t].nextIndex)
            /\ (tasks'[t].pc \in {"load", "unload"} /\ tasks[t].pc # tasks'[t].pc) =>
                  tasks[t].pc = "stop"]_vars

C12_Witness ==
    lastStep = "loadOk" /\ ~lastStale /\ currentIndex = 1 /\ ~overlapped

\* C13: when the stopAsync of an advance to nextIndex resolves, the previous
\* surface gets exactly one command: loadAsync of playlist[nextIndex+1] when
\* nextIndex+1 < N, unloadAsync otherwise, and a resolved unloadAsync leaves it
\* Empty.
C13_PreloadOrUnload ==
    [][\A t \in 1..MaxTasks :
         LET prev == 1 - tasks[t].nextActiveId
             fut == tasks[t].nextIndex + 1
             list == tasks[t].playlist
         IN  /\ (tasks[t].pc = "stop" /\ tasks'[t].pc # "stop" /\ ~lastStale') =>
                    issued' = {IF fut < Len(list)
                               THEN Cmd("load", prev, list[fut + 1])
                               ELSE Cmd("unload", prev, 0)}
             /\ (tasks[t].pc = "unload" /\ tasks'[t].pc # "unload" /\ ~lastStale') =>
                    (issued' = {} /\ surf'[prev] = EmptySurface)]_vars

C13_Witness ==
    lastStep = "stopOk" /\ ~lastStale /\ N = 3 /\ issued = {Cmd("load", 0, playlist[3])}

\* C14 as stated: no two suspended handleTap invocations of the mounted player
\* have their pending command on the same surface.
C14_OneCommandPerSurface ==
    \A t1, t2 \in LiveInFlight : t1 # t2 => Target(t1) # Target(t2)

\* C15 as stated (its part on the cursor): a rejected preload changes neither
\* currentIndex nor activePlayerId and issues nothing, and the later advance
\* whose target is the clip that failed to preload does not flip the cursor.
C15_PreloadFailureDeferred ==
    [][/\ (lastStep' = "loadFail" /\ ~lastStale') =>
             (currentIndex' = currentIndex /\ activePlayerId' = activePlayerId
                /\ issued' = {})
       /\ \A t \in 1..MaxTasks :
            (tasks[t].pc = "play" /\ tasks'[t].pc # "play" /\ ~lastStale'
               /\ tasks[t].playlist[tasks[t].nextIndex + 1] \in preloadFailed) =>
                (currentIndex' = currentIndex /\ activePlayerId' = activePlayerId)]_vars

\* C16 as stated: within a session isReady never goes back to false, and it
\* becomes true only with playlist[0] loaded on surface A and playlist[1] (when
\* N >= 2) loaded on surface B.
C16_ReadyOnceAfterLoads ==
    [][/\ (isReady /\ lastStep' # "start") => isReady'
       /\ (~isReady /\ isReady') =>
             /\ Loaded(surf'[0]) /\ surf'[0].clip = playlist[1]
             /\ N >= 2 => (Loaded(surf'[1]) /\ surf'[1].clip = playlist[2])]_vars

\* The parity part of C19: activePlayerId is currentIndex mod 2 in every state
\* (each handleTap sets both from the values of one render).
ActiveIsParity == activePlayerId = currentIndex % 2

\* C19 as stated: activePlayerId is currentIndex mod 2 in every state, and
\* within a session the two change only together, when a playAsync resolves,
\* the change flipping activePlayerId and adding one to currentIndex.
C19_ParityFlipAndIncrement ==
    /\ []ActiveIsParity
    /\ [][lastStep' # "start" =>
            /\ (currentIndex' # currentIndex) <=> (activePlayerId' # activePlayerId)
            /\ currentIndex' # currentIndex =>
                  /\ lastStep' = "playOk"
                  /\ activePlayerId' = 1 - activePlayerId
                  /\ currentIndex' = currentIndex + 1]_vars

\* C20 as stated: the cursor stays within 0..N-1 and every change of it within
\* a session is an increase by exactly one.
C20_CursorMonotone ==
    /\ [](isPlaying => (0 <= currentIndex /\ currentIndex <= N - 1))
    /\ [][(lastStep' # "start" /\ currentIndex' # currentIndex) =>
             currentIndex' = currentIndex + 1]_vars

\* C17 as stated: while a session lasts, the playlist the player is given does
\* not change.
C17_PlaylistFixedInSession ==
    [][(isPlaying /\ isPlaying') => playlist' = playlist]_vars

\* C18 as stated: the step at position i has stepNumber i, and only a reset
\* removes a saved step from the list.
C18_StepNumbersAndNoLoss ==
    /\ [](\A i \in 1..Len(steps) : stepNumber(steps[i]) = i)
    /\ [][lastStep' # "clearAll" =>
            \A i \in 1..Len(steps) : \E j \in 1..Len(steps') : steps'[j] = steps[i]]_vars

====
